---- MODULE Spec2Model ----
(***************************************************************************)
(* Model of shell/renderer/api/atom_api_context_bridge.cc: the context     *)
(* bridge that proxies an API object graph from a frame's isolated world   *)
(* into its main world.                                                    *)
(*                                                                         *)
(* The script engine's heap is a sequence of objects; an object's index is *)
(* its identity (its reference) and its ctx field is its creation context. *)
(* Every handler of the bridge is one action; the recursive marshaller is  *)
(* a recursive operator threading a record S of everything it can modify.  *)
(***************************************************************************)
EXTENDS Integers, Sequences, FiniteSets, TLC

\* ------------------------------------------------------------------ bounds
NumFrames == 2
MaxCalls == 2
MaxDepth == 6
MaxWrites == 1

Frames == 1..NumFrames

\* --------------------------------------------------------------- contexts
Ctx(f, w) == [f |-> f, w |-> w]
Iso(f) == Ctx(f, "iso")
Main(f) == Ctx(f, "main")

\* ----------------------------------------------------------------- values
\* A value is a primitive or a reference to a heap object.
Prim(n) == [t |-> "prim", v |-> n]
Sym == [t |-> "sym", v |-> 0]
Null == [t |-> "null", v |-> 0]
Undef == [t |-> "undef", v |-> 0]
Absent == [t |-> "absent", v |-> 0]
Ref(o) == [t |-> "ref", v |-> o]
\* Not a value: what a property holds whose read throws (an accessor).
Throwing == [t |-> "throws", v |-> 0]

Obj(kind, ctx) ==
  [kind |-> kind, ctx |-> ctx, live |-> TRUE, frozen |-> FALSE,
   keys |-> <<>>, elems |-> <<>>, msg |-> "", pstate |-> "na", pval |-> Undef,
   store |-> 0, fid |-> 0, monitored |-> FALSE,
   beh |-> "none", ret |-> Undef, target |-> 0, made |-> "bridge", writes |-> 0]

\* Objects the scripts make themselves.
Script(o) == [o EXCEPT !.made = "script"]
NativeFunc(ctx, beh, ret) == Script([Obj("func", ctx) EXCEPT !.beh = beh, !.ret = ret])
NativeError(ctx, m) == Script([Obj("error", ctx) EXCEPT !.msg = m])
NativePromise(ctx) == Script([Obj("promise", ctx) EXCEPT !.pstate = "pending"])
NativeArray(ctx, es) == Script([Obj("array", ctx) EXCEPT !.elems = es])
NativeObject(ctx, ks, es) == Script([Obj("object", ctx) EXCEPT !.keys = ks, !.elems = es])
ApiObject(ctx, ks, es) == [NativeObject(ctx, ks, es) EXCEPT !.beh = "api"]

IsFunction(h, v) == v.t = "ref" /\ h[v.v].kind = "func"
IsPromise(h, v) == v.t = "ref" /\ h[v.v].kind = "promise"
IsNativeError(h, v) == v.t = "ref" /\ h[v.v].kind = "error"
IsArray(h, v) == v.t = "ref" /\ h[v.v].kind = "array"
IsObject(h, v) == v.t = "ref"
IsNullOrUndefined(v) == v.t \in {"null", "undef"}

\* ------------------------------------------------------------------- maps
EmptyMap == [i \in {} |-> 0]
MapSet(m, k, x) == [i \in (DOMAIN m) \cup {k} |-> IF i = k THEN x ELSE m[i]]
MapErase(m, k) == [i \in (DOMAIN m) \ {k} |-> m[i]]

\* ------------------------------------------------------------------ state
VARIABLES
  heap,        \* the engine's objects, by reference
  frameAlive,  \* RenderFrames the host has not destroyed
  store_map_,  \* frames with an entry in store_map_ (entry of frame f -> store f)
  storeAlive,  \* stores that have not been deleted
  next_id,     \* per store: the id counter
  functions,   \* per store: id -> (function, owning context)
  monitors,    \* FunctionLifeMonitors whose target is alive
  finalQ,      \* monitors whose target was collected, destructor not yet run
  reactions,   \* then/catch callback pairs attached to source promises
  global,      \* per frame: the main world's global object
  held,        \* references the main world's scripts keep in variables
  ncalls,      \* proxy invocations made so far
  uaf,         \* a deleted store has been dereferenced
  aborted,     \* the process has crashed
  ev           \* the call into the bridge that has just returned: inputs and outputs

vars == <<heap, frameAlive, store_map_, storeAlive, next_id, functions,
          monitors, finalQ, reactions, global, held, ncalls, uaf, aborted, ev>>

Names == {"api", "document"}

NoEv == [op |-> "init", f |-> 0, key |-> "", obj |-> 0, args |-> <<>>,
         outcome |-> "", result |-> Undef, exc |-> 0, calls |-> <<>>,
         base |-> 0, id |-> 0, orig |-> 0, ret |-> Undef, rets |-> <<>>]

\* ----------------------------------------------------- the scripts' world
\* The worlds of scripts.  In the first, frame 1's preload script exposes
\* functions, an array and (through a function's return value) a nested
\* object, frame 1's page script has a callback of its own, and frame 2's
\* preload script exposes a nested namespace.
InitHeap ==
  << NativeFunc(Iso(1), "echo", Undef),                         \* 1  f
     NativeError(Iso(1), "M"),                                  \* 2  err
     NativeFunc(Iso(1), "throw", Ref(2)),                       \* 3  g
     NativeObject(Iso(1), <<"g">>, <<Ref(3)>>),                 \* 4  sub
     NativeFunc(Iso(1), "throwRaw", Undef),                     \* 5  r
     NativeArray(Iso(1), <<Ref(1), Prim(1), Ref(5)>>),          \* 6  arr
     NativeFunc(Iso(1), "ret", Ref(4)),                         \* 7  k
     ApiObject(Iso(1), <<"get", "arr">>, <<Ref(7), Ref(6)>>),   \* 8  api
     NativeFunc(Main(1), "echo", Undef),                        \* 9  cb
     NativeFunc(Iso(2), "echo", Undef),                         \* 10 h
     NativeObject(Iso(2), <<"h">>, <<Ref(10)>>),                \* 11 ns
     ApiObject(Iso(2), <<"ns">>, <<Ref(11)>>) >>                \* 12 api2

\* In the second, frame 1's preload script exposes a promise and settles it.
InitHeapP ==
  << NativeFunc(Iso(1), "echo", Undef),                         \* 1  f
     NativeError(Iso(1), "M"),                                  \* 2  err
     NativePromise(Iso(1)),                                     \* 3  P
     ApiObject(Iso(1), <<"p">>, <<Ref(3)>>),                    \* 4  api
     NativeFunc(Main(1), "echo", Undef) >>                      \* 5  cb

\* In the third, frame 1's preload script exposes one value of every kind,
\* each as a property and as an element of an array that has the same function
\* twice, and an accessor that throws; frame 2's preload script has an object
\* that is its own property and an array with an element whose read throws.
InitHeapV ==
  << NativeFunc(Iso(1), "echo", Undef),                         \* 1  f
     NativeError(Iso(1), "M"),                                  \* 2  err
     NativePromise(Iso(1)),                                     \* 3  P
     NativeObject(Iso(1), <<"k">>, <<Prim(1)>>),                \* 4  sub
     NativeArray(Iso(1), <<Prim(1)>>),                          \* 5  inner
     NativeArray(Iso(1), <<Ref(1), Ref(1), Ref(2), Ref(3), Ref(4), Null, Undef,
                           Prim(1), Sym, Ref(5)>>),             \* 6  all
     ApiObject(Iso(1),
               <<"f", "e", "p", "o", "n", "u", "k", "s", "a", "t", "all">>,
               <<Ref(1), Ref(2), Ref(3), Ref(4), Null, Undef, Prim(1), Sym,
                 Ref(5), Throwing, Ref(6)>>),                   \* 7  api
     NativeFunc(Main(1), "echo", Undef),                        \* 8  cb
     ApiObject(Iso(2), <<"self">>, <<Ref(9)>>),                 \* 9  api2
     NativeArray(Iso(2), <<Prim(1), Throwing>>),                \* 10 bad
     ApiObject(Iso(2), <<"bad">>, <<Ref(10)>>) >>               \* 11 api3

\* In the fourth, frame 1's preload script exposes two promises at once.
InitHeapQ ==
  << NativeFunc(Iso(1), "echo", Undef),                         \* 1  f
     NativeError(Iso(1), "M"),                                  \* 2  err
     NativePromise(Iso(1)),                                     \* 3  P
     NativePromise(Iso(1)),                                     \* 4  Q
     ApiObject(Iso(1), <<"p", "q">>, <<Ref(3), Ref(4)>>),       \* 5  api
     NativeFunc(Main(1), "echo", Undef) >>                      \* 6  cb

Scripted == { o \in 1..Len(heap) : heap[o].made = "script" }
ApiObjects == { o \in Scripted : heap[o].beh = "api" }
Callbacks == { o \in Scripted : heap[o].kind = "func" /\ heap[o].ctx.w = "main" }
\* The argument lists a page script calls a proxy with.
ArgLists == { <<>> } \cup { <<Ref(c), Prim(2), Sym>> : c \in Callbacks }
\* How a preload script settles a promise: it fulfills it with a function or
\* rejects it with an error.
Settlements ==
  { <<"fulfilled", Ref(o)>> : o \in { x \in Scripted : heap[x].kind = "func" /\ heap[x].ctx.w = "iso" } }
  \cup { <<"rejected", Ref(o)>> : o \in { x \in Scripted : heap[x].kind = "error" } }

InitWith(h) ==
  /\ heap = h
  /\ frameAlive = Frames
  /\ store_map_ = {}
  /\ storeAlive = {}
  /\ next_id = [f \in Frames |-> 1]
  /\ functions = [f \in Frames |-> EmptyMap]
  /\ monitors = {}
  /\ finalQ = {}
  /\ reactions = {}
  /\ global = [f \in Frames |-> [n \in Names |-> IF n = "document" THEN Prim(0) ELSE Absent]]
  /\ held = {}
  /\ ncalls = 0
  /\ uaf = FALSE
  /\ aborted = FALSE
  /\ ev = NoEv

Init == InitWith(InitHeap)
InitP == InitWith(InitHeapP)
InitV == InitWith(InitHeapV)
InitQ == InitWith(InitHeapQ)

\* ------------------------------------------------- the marshaller's state
\* Everything a handler can modify, threaded through the recursion.  luck is
\* the outcome of a use of freed memory: TRUE when the freed bytes are still
\* as the destructor left them, FALSE when the access faults.
St(luck) ==
  [heap |-> heap, store_map_ |-> store_map_, storeAlive |-> storeAlive,
   next_id |-> next_id, functions |-> functions, monitors |-> monitors,
   reactions |-> reactions, uaf |-> uaf, abort |-> FALSE, why |-> "", calls |-> <<>>,
   rets |-> <<>>, luck |-> luck]

Alloc(S, o) == [S EXCEPT !.heap = Append(@, o)]
\* The process dies, and of what: a memory fault or an empty handle ("fault"),
\* an exhausted stack ("stack"), an empty MaybeLocal checked ("read").
Fatal(S, why) == IF S.abort THEN S ELSE [S EXCEPT !.abort = TRUE, !.why = why]
Crash(S) == Fatal(S, "fault")
Overflow(S) == Fatal(S, "stack")
Res(S, val) == [S |-> S, val |-> val]

\* GetOrCreateStore: the store of frame f is identified with f.
GetOrCreateStore(S, render_frame) ==
  IF render_frame \notin S.store_map_
  THEN [S EXCEPT !.store_map_ = @ \cup {render_frame},
                 !.storeAlive = @ \cup {render_frame},
                 !.next_id[render_frame] = 1,
                 !.functions[render_frame] = EmptyMap]
  ELSE S

\* RenderFramePersistenceStore::take_id (declared in the header): hands out
\* the counter and advances it.
take_id(S, store) ==
  [S |-> [S EXCEPT !.next_id[store] = @ + 1], id |-> S.next_id[store]]

\* store->functions()[func_id] = std::make_tuple(global_func, global_source)
SetFunction(t, store, func, source) ==
  [S |-> [t.S EXCEPT !.functions[store] =
             MapSet(@, t.id, [func |-> func, ctx |-> source])],
   id |-> t.id]

\* A registration that reads the counter and does not advance it.
StoreFunctionSameId(S, store, func, source) ==
  SetFunction([S |-> S, id |-> S.next_id[store]], store, func, source)

\* A registration that gives a function that has an entry that entry's id.
StoreFunctionOnce(S, store, func, source) ==
  IF \E i \in DOMAIN S.functions[store] : S.functions[store][i].func = func
  THEN [S |-> S,
        id |-> CHOOSE i \in DOMAIN S.functions[store] : S.functions[store][i].func = func]
  ELSE SetFunction(take_id(S, store), store, func, source)

\* size_t func_id = store->take_id(); store->functions()[func_id] = ...
\* On a deleted store both statements use freed memory.
StoreFunction(S, store, func, source) ==
  IF store \in S.storeAlive
  THEN SetFunction(take_id(S, store), store, func, source)
  ELSE IF S.luck
  THEN SetFunction(take_id([S EXCEPT !.uaf = TRUE], store), store, func, source)
  ELSE [S |-> Crash([S EXCEPT !.uaf = TRUE]), id |-> 0]

\* FunctionLifeMonitor::BindTo
BindTo(S, target, store, func_id) ==
  [S EXCEPT !.monitors = @ \cup {[target |-> target, store |-> store, id |-> func_id]},
            !.heap[target].monitored = TRUE]

\* v8::Message::Get() of the message of an exception that is an Error with
\* message m: the engine formats the uncaught-exception template around the
\* error's string form.
MessageGet(m) == "Uncaught Error: " \o m

GenericMessage == "An unknown exception occurred in the isolated context, an error occurred but a valid exception was not thrown."

\* mate::ConvertFromV8(value, &base::Value): symbols have no base::Value.
ConvertFromV8(v) == IF v.t = "prim" THEN [ok |-> TRUE, v |-> v.v] ELSE [ok |-> FALSE, v |-> 0]
ConvertToV8(b) == Prim(b)

\* Lines 220-230: out of the source context, into the destination context.
PassPrimitive(S, ret) ==
  IF ~ret.ok THEN Res(S, Null) ELSE Res(S, ConvertToV8(ret.v))

RECURSIVE PassValueToOtherContext(_, _, _, _, _, _, _)
RECURSIVE CreateProxyForAPI(_, _, _, _, _, _, _)
RECURSIVE PassArrayElements(_, _, _, _, _, _, _)
RECURSIVE ProxyProperties(_, _, _, _, _, _, _)

\* The proxy function of entry r.id, made in the destination, and its monitor
\* (lines 117-126).
BindProxyFunction(r, destination, func, store) ==
  IF r.S.abort THEN Res(r.S, Undef)
  ELSE Res(BindTo(Alloc(r.S, [Obj("func", destination) EXCEPT
                                !.store = store, !.fid = r.id, !.target = func]),
                  Len(r.S.heap) + 1, store, r.id),
           Ref(Len(r.S.heap) + 1))

\* The function case of PassValueToOtherContext (lines 109-127).
PassFunction(S, source, destination, value, store) ==
  BindProxyFunction(StoreFunction(S, store, value.v, source), destination, value.v, store)

\* The promise case (lines 131-170): a new pending promise in the destination
\* and a then/catch pair on the source promise.
PassPromise(S, source, destination, value, store) ==
  Res([Alloc(S, [Obj("promise", destination) EXCEPT
                   !.pstate = "pending", !.target = value.v])
         EXCEPT !.reactions = @ \cup
                  {[src |-> value.v, dst |-> Len(S.heap) + 1, source |-> source,
                    destination |-> destination, store |-> store]}],
      Ref(Len(S.heap) + 1))

\* The native error case (lines 174-178).
PassError(S, destination, value) ==
  Res(Alloc(S, [Obj("error", destination) EXCEPT
                  !.msg = MessageGet(S.heap[value.v].msg), !.target = value.v]),
      Ref(Len(S.heap) + 1))

\* cloned_arr->Set(destination, i, ...) for the marshalled elements r.vals.
SetElements(r, cloned_arr) ==
  Res([r.S EXCEPT !.heap[cloned_arr].elems = r.vals], Ref(cloned_arr))

\* The array case (lines 182-196).
PassArray(S, source, destination, value, store, depth) ==
  SetElements(PassArrayElements(Alloc(S, [Obj("array", destination) EXCEPT !.target = value.v]),
                                source, destination, S.heap[value.v].elems, 1, store, depth),
              Len(S.heap) + 1)

\* A marshaller that asks whether the value is an object before it asks
\* whether it is an error or an array.
PassValueObjectFirst(S, cur, source, destination, value, store, depth) ==
  IF S.abort THEN Res(S, Undef)
  ELSE IF depth > MaxDepth THEN Res(Overflow(S), Undef)
  ELSE IF IsFunction(S.heap, value) THEN PassFunction(S, source, destination, value, store)
  ELSE IF IsPromise(S.heap, value) THEN PassPromise(S, source, destination, value, store)
  ELSE IF IsObject(S.heap, value) /\ ~IsNullOrUndefined(value)
       THEN CreateProxyForAPI(S, cur, value.v, source, destination, store, depth + 1)
  ELSE IF value.t = "null" THEN Res(S, Null)
  ELSE IF value.t = "undef" THEN Res(S, Undef)
  ELSE PassPrimitive(S, ConvertFromV8(value))

\* cur is the context the isolate has entered when the call is made.
PassValueToOtherContext(S, cur, source, destination, value, store, depth) ==
  IF S.abort THEN Res(S, Undef)
  ELSE IF depth > MaxDepth THEN Res(Overflow(S), Undef)
  ELSE IF IsFunction(S.heap, value) THEN PassFunction(S, source, destination, value, store)
  ELSE IF IsPromise(S.heap, value) THEN PassPromise(S, source, destination, value, store)
  ELSE IF IsNativeError(S.heap, value) THEN PassError(S, destination, value)
  ELSE IF IsArray(S.heap, value) THEN PassArray(S, source, destination, value, store, depth + 1)
  ELSE IF IsObject(S.heap, value) /\ ~IsNullOrUndefined(value)
       THEN CreateProxyForAPI(S, cur, value.v, source, destination, store, depth + 1)
  ELSE IF value.t = "null" THEN Res(S, Null)
  ELSE IF value.t = "undef" THEN Res(S, Undef)
  ELSE PassPrimitive(S, ConvertFromV8(value))

Cons(val, rest) == [S |-> rest.S, vals |-> <<val>> \o rest.vals]

\* An array loop that drops the element it has just marshalled.
PassArrayRestDropped(r, source, destination, elems, i, store, depth) ==
  PassArrayElements(r.S, source, destination, elems, i + 1, store, depth)

\* The rest of the array after element i has been marshalled as r.
PassArrayRest(r, source, destination, elems, i, store, depth) ==
  Cons(r.val, PassArrayElements(r.S, source, destination, elems, i + 1, store, depth))

\* The loop of the array case: elements i.. of the source array, marshalled
\* with the destination entered.
PassArrayElements(S, source, destination, elems, i, store, depth) ==
  IF i > Len(elems) THEN [S |-> S, vals |-> <<>>]
  ELSE IF elems[i] = Throwing
  THEN [S |-> Fatal(S, "read"), vals |-> <<>>]    \* arr->Get(source, i).ToLocalChecked()
  ELSE PassArrayRest(PassValueToOtherContext(S, destination, source, destination,
                                             elems[i], store, depth),
                     source, destination, elems, i, store, depth)

\* proxy.SetMethod(key_str, BindRepeating(&ProxyFunctionWrapper, store, func_id))
\* (lines 329-330): the method is a function of the target context.
SetMethod(r, target_context, func, store) ==
  IF r.S.abort THEN Res(r.S, Undef)
  ELSE Res(Alloc(r.S, [Obj("func", target_context) EXCEPT
                         !.store = store, !.fid = r.id, !.target = func]),
           Ref(Len(r.S.heap) + 1))

\* One property of the api object (lines 316-340), with the target entered.
ProxyProperty(S, value, source_context, target_context, store, depth) ==
  IF IsFunction(S.heap, value)
  THEN SetMethod(StoreFunction(S, store, value.v, source_context), target_context, value.v, store)
  ELSE IF IsObject(S.heap, value) /\ ~IsNullOrUndefined(value)
          /\ ~IsArray(S.heap, value) /\ ~IsPromise(S.heap, value)
       THEN CreateProxyForAPI(S, target_context, value.v, source_context, target_context, store, depth)
  ELSE PassValueToOtherContext(S, target_context, source_context, target_context, value, store, depth)

ProxyPropertiesRest(r, api, i, source_context, target_context, store, depth) ==
  Cons(r.val, ProxyProperties(r.S, api, i + 1, source_context, target_context, store, depth))

\* The loop over the keys (lines 306-341).
ProxyProperties(S, api, i, source_context, target_context, store, depth) ==
  IF S.abort \/ i > Len(S.heap[api].keys) THEN [S |-> S, vals |-> <<>>]
  ELSE IF S.heap[api].elems[i] = Throwing          \* if (!api.Get(key_str, &value)) continue;
  THEN ProxyProperties(S, api, i + 1, source_context, target_context, store, depth)
  ELSE ProxyPropertiesRest(ProxyProperty(S, S.heap[api].elems[i], source_context,
                                         target_context, store, depth),
                           api, i, source_context, target_context, store, depth)

\* The keys whose read succeeds, in order.
RECURSIVE ReadableKeys(_, _, _)
ReadableKeys(keys, elems, i) ==
  IF i > Len(keys) THEN <<>>
  ELSE (IF elems[i] = Throwing THEN <<>> ELSE <<keys[i]>>) \o ReadableKeys(keys, elems, i + 1)

\* A proxy that is left without the last property.
SetPropertiesButLast(r, proxy, keys) ==
  Res([r.S EXCEPT !.heap[proxy].keys = SubSeq(keys, 1, Len(keys) - 1),
                  !.heap[proxy].elems = SubSeq(r.vals, 1, Len(r.vals) - 1)], Ref(proxy))

\* proxy.Set(key_str, ...) for the keys of the api object and the values r.vals.
SetProperties(r, proxy, keys) ==
  Res([r.S EXCEPT !.heap[proxy].keys = keys, !.heap[proxy].elems = r.vals], Ref(proxy))

\* The proxy object is created before the target context is entered: it is an
\* object of the context that is current when CreateProxyForAPI is called.
CreateProxyForAPI(S, cur, api, source_context, target_context, store, depth) ==
  IF S.abort THEN Res(S, Undef)
  ELSE IF depth > MaxDepth THEN Res(Overflow(S), Undef)
  ELSE SetProperties(ProxyProperties(Alloc(S, [Obj("object", cur) EXCEPT !.target = api]),
                                     api, 1, source_context, target_context, store, depth + 1),
                     Len(S.heap) + 1, ReadableKeys(S.heap[api].keys, S.heap[api].elems, 1))

\* DeepFreeze (lines 52-64): children that are objects first, then the object.
RECURSIVE DeepFreeze(_, _)
RECURSIVE DeepFreezeChildren(_, _, _)

DeepFreezeChildren(h, o, i) ==
  IF i > Len(h[o].elems) THEN h
  ELSE DeepFreezeChildren(IF IsObject(h, h[o].elems[i]) THEN DeepFreeze(h, h[o].elems[i].v) ELSE h,
                          o, i + 1)

\* A freeze of the top-level object alone.
ShallowFreeze(h, object) == [h EXCEPT ![object].frozen = TRUE]

DeepFreeze(h, object) ==
  [DeepFreezeChildren(h, object, 1) EXCEPT ![object].frozen = TRUE]

\* --------------------------------------------------- the function proxy
RECURSIVE ProxyFunctionWrapper(_, _, _, _)
RECURSIVE Call(_, _, _, _, _)

Logged(S, by, func, args) ==
  [S EXCEPT !.calls = Append(@, [by |-> by, callee |-> func, args |-> args])]

\* What the TryCatch sees of a callee that was itself a proxy function.
Caught(r) ==
  [S |-> r.S, threw |-> r.outcome = "throw", val |-> r.val,
   msg |-> IF r.outcome = "throw" THEN r.S.heap[r.exc].msg ELSE "",
   extractable |-> TRUE, orig |-> r.exc]

\* func->Call(func_owning_context, func, argc, argv) under the TryCatch: what
\* the callee does.  A script function echoes its first argument, returns a
\* fixed value, throws an Error object or throws something whose message the
\* engine cannot produce; a callee that is itself a proxy function runs
\* ProxyFunctionWrapper again.
Call(S, by, func, args, depth) ==
  IF S.heap[func].fid # 0
  THEN Caught(ProxyFunctionWrapper(Logged(S, by, func, args), func, args, depth + 1))
  ELSE IF S.heap[func].beh = "echo"
  THEN [S |-> Logged(S, by, func, args), threw |-> FALSE,
        val |-> IF Len(args) > 0 THEN args[1] ELSE Undef,
        msg |-> "", extractable |-> TRUE, orig |-> 0]
  ELSE IF S.heap[func].beh = "ret"
  THEN [S |-> Logged(S, by, func, args), threw |-> FALSE, val |-> S.heap[func].ret,
        msg |-> "", extractable |-> TRUE, orig |-> 0]
  ELSE IF S.heap[func].beh = "throw"
  THEN [S |-> Logged(S, by, func, args), threw |-> TRUE, val |-> Undef,
        msg |-> S.heap[S.heap[func].ret.v].msg, extractable |-> TRUE,
        orig |-> S.heap[func].ret.v]
  ELSE [S |-> Logged(S, by, func, args), threw |-> TRUE, val |-> Undef,
        msg |-> "", extractable |-> FALSE, orig |-> 0]

NoEntry == [func |-> 0, ctx |-> Ctx(0, "none")]

\* store->functions()[func_id] (lines 239-244).  On a deleted store the map has
\* been destroyed and its handles reset; on a live store a missing id is
\* default-inserted.  Either way the handles read are empty and entering the
\* empty context faults.
LookupFunction(S, store, func_id) ==
  IF store \notin S.storeAlive
  THEN [S |-> Crash([S EXCEPT !.uaf = TRUE]), found |-> FALSE, func |-> 0, ctx |-> NoEntry.ctx]
  ELSE IF func_id \notin DOMAIN S.functions[store]
  THEN [S |-> Crash([S EXCEPT !.functions[store] = MapSet(@, func_id, NoEntry)]),
        found |-> FALSE, func |-> 0, ctx |-> NoEntry.ctx]
  ELSE [S |-> S, found |-> TRUE, func |-> S.functions[store][func_id].func,
        ctx |-> S.functions[store][func_id].ctx]

RECURSIVE PassArguments(_, _, _, _, _, _, _)

\* An argument loop that drops the argument it has just marshalled.
PassArgumentsRestDropped(r, calling_context, func_owning_context, original_args, i, store, depth) ==
  PassArguments(r.S, calling_context, func_owning_context, original_args, i + 1, store, depth)

PassArgumentsRest(r, calling_context, func_owning_context, original_args, i, store, depth) ==
  Cons(r.val, PassArguments(r.S, calling_context, func_owning_context,
                            original_args, i + 1, store, depth))

\* The arguments, marshalled from the calling to the owning context with the
\* owning context entered (lines 246-252).
PassArguments(S, calling_context, func_owning_context, original_args, i, store, depth) ==
  IF i > Len(original_args) THEN [S |-> S, vals |-> <<>>]
  ELSE PassArgumentsRest(PassValueToOtherContext(S, func_owning_context, calling_context,
                                                 func_owning_context, original_args[i],
                                                 store, depth),
                         calling_context, func_owning_context, original_args, i, store, depth)

Outcome(S, outcome, val, exc, orig) ==
  [S |-> S, outcome |-> outcome, val |-> val, exc |-> exc, orig |-> orig, ret |-> Undef]

\* args->ThrowError(error_message) with the calling context entered (lines
\* 275-279): a new Error of the calling context is raised, nothing is returned.
ThrowError(S, calling_context, error_message, orig) ==
  Outcome(Alloc(S, [Obj("error", calling_context) EXCEPT !.msg = error_message]),
          "throw", Undef, Len(S.heap) + 1, orig)

\* What the wrapper hands back for return_value, marshalled as r.
Returned(r, return_value) ==
  [Outcome(r.S, IF r.S.abort THEN "abort" ELSE "return", r.val, 0, 0)
     EXCEPT !.ret = return_value]

\* The return value goes back with the owning context still entered
\* (func_owning_context_scope lives until the function returns; lines 281-287).
PassReturnValue(S, func_owning_context, calling_context, return_value, store, depth) ==
  Returned(PassValueToOtherContext([S EXCEPT !.rets = Append(@, return_value)],
                                   func_owning_context, func_owning_context,
                                   calling_context, return_value, store, depth),
           return_value)

\* Lines 261-287, for the outcome c of the call.
AfterCall(c, e, p, depth) ==
  IF c.S.abort THEN Outcome(c.S, "abort", Undef, 0, 0)
  ELSE IF c.threw
  THEN ThrowError(c.S, c.S.heap[p].ctx,
                  IF c.extractable THEN MessageGet(c.msg) ELSE GenericMessage, c.orig)
  ELSE PassReturnValue(c.S, e.ctx, c.S.heap[p].ctx, c.val, c.S.heap[p].store, depth + 1)

\* Lines 254-260, for the marshalled arguments pa.
CallWith(pa, e, p, depth) ==
  IF pa.S.abort THEN Outcome(pa.S, "abort", Undef, 0, 0)
  ELSE AfterCall(Call(pa.S, p, e.func, pa.vals, depth + 1), e, p, depth)

\* Lines 246-252, for the entry e found under the proxy's id.
WithEntry(e, p, args, depth) ==
  IF ~e.found THEN Outcome(e.S, "abort", Undef, 0, 0)
  ELSE CallWith(PassArguments(e.S, e.S.heap[p].ctx, e.ctx, args, 1,
                              e.S.heap[p].store, depth + 1),
                e, p, depth)

\* p is the proxy function object: it carries (store, func_id), and the
\* current context on entry is its creation context.
ProxyFunctionWrapper(S, p, args, depth) ==
  IF S.abort \/ depth > MaxDepth THEN Outcome(Overflow(S), "abort", Undef, 0, 0)
  ELSE WithEntry(LookupFunction(S, S.heap[p].store, S.heap[p].fid), p, args, depth)

\* ------------------------------------------------------------ reachability
Succ(h, o) ==
  { v.v : v \in { w \in ({h[o].elems[i] : i \in DOMAIN h[o].elems} \cup {h[o].pval}) :
                  w.t = "ref" } }

RefsOf(vals) == { v.v : v \in { w \in vals : w.t = "ref" } }

RECURSIVE Closure(_, _)
Closure(h, R) ==
  LET N == R \cup UNION { Succ(h, o) : o \in R }
  IN IF N = R THEN R ELSE Closure(h, N)

\* The objects reachable from R through own properties.
RECURSIVE PropertyClosure(_, _)
PropertyClosure(h, R) ==
  IF UNION { RefsOf({h[o].elems[i] : i \in DOMAIN h[o].elems}) : o \in R } \subseteq R THEN R
  ELSE PropertyClosure(h, R \cup UNION { RefsOf({h[o].elems[i] : i \in DOMAIN h[o].elems}) : o \in R })

\* The exposed graphs: what hangs off the main worlds' globals by own
\* properties.  What the main worlds' scripts can reach is that, their
\* variables, and the values of the promises they can reach.
Exposed == PropertyClosure(heap, RefsOf({ global[f][n] : f \in Frames, n \in Names }))
MainRoots == RefsOf({ global[f][n] : f \in Frames, n \in Names }) \cup held
MainReach == Closure(heap, MainRoots)

\* What keeps an object alive: the scripts' own objects, the main worlds'
\* roots, the stores' global handles and the promises pending callbacks hold.
GCRoots ==
  Scripted \cup MainRoots
  \cup UNION { { functions[f][i].func : i \in DOMAIN functions[f] } : f \in Frames }
  \cup { r.dst : r \in reactions } \cup { r.src : r \in reactions }

IsProxyFunction(h, o) == h[o].kind = "func" /\ h[o].fid # 0


\* ---------------------------------------------------------------- actions
Commit(S) ==
  /\ heap' = S.heap
  /\ store_map_' = S.store_map_
  /\ storeAlive' = S.storeAlive
  /\ next_id' = S.next_id
  /\ functions' = S.functions
  /\ monitors' = S.monitors
  /\ reactions' = S.reactions
  /\ uaf' = S.uaf

\* The process dies: nothing of the handler's work survives.
CrashStep(S) ==
  /\ aborted' = TRUE
  /\ uaf' = S.uaf
  /\ ev' = [NoEv EXCEPT !.op = "abort", !.outcome = S.why]
  /\ UNCHANGED <<heap, frameAlive, store_map_, storeAlive, next_id, functions,
                 monitors, finalQ, reactions, global, held, ncalls>>

\* The process dies inside a call into the bridge.
CrashCall(S) ==
  /\ aborted' = TRUE
  /\ uaf' = S.uaf
  /\ ev' = [NoEv EXCEPT !.op = "abort", !.outcome = S.why]
  /\ UNCHANGED <<heap, frameAlive, store_map_, storeAlive, next_id, functions,
                 monitors, finalQ, reactions, global, held>>

Has(g, key) == g[key] # Absent

ExposeEv(render_frame, key, api) ==
  [NoEv EXCEPT !.op = "expose", !.f = render_frame, !.key = key, !.obj = api,
               !.base = Len(heap)]

\* Lines 376-382, for the proxy r that CreateProxyForAPI built.
InstallProxy(r, render_frame, key, api) ==
  IF r.S.abort THEN CrashStep(r.S)
  ELSE /\ Commit([r.S EXCEPT !.heap = DeepFreeze(@, r.val.v)])
       /\ global' = [global EXCEPT ![render_frame][key] = r.val]
       /\ ev' = [ExposeEv(render_frame, key, api) EXCEPT !.outcome = "ok", !.result = r.val]
       /\ UNCHANGED <<frameAlive, finalQ, held, ncalls, aborted>>

\* An exposure that does not look at the global first.
ExposeOver(S0, render_frame, key, api) ==
  InstallProxy(CreateProxyForAPI(S0, Main(render_frame), api, Iso(render_frame),
                                 Main(render_frame), render_frame, 0),
               render_frame, key, api)

\* Lines 363-382, for the state S0 in which the frame has its store.
ExposeIn(S0, render_frame, key, api) ==
  IF Has(global[render_frame], key)
  THEN /\ Commit(S0)
       /\ ev' = [ExposeEv(render_frame, key, api) EXCEPT !.outcome = "collision"]
       /\ UNCHANGED <<frameAlive, finalQ, global, held, ncalls, aborted>>
  ELSE InstallProxy(CreateProxyForAPI(S0, Main(render_frame), api, Iso(render_frame),
                                      Main(render_frame), render_frame, 0),
                    render_frame, key, api)

\* contextBridge.exposeAPIInMainWorld(key, api), called by the preload script
\* of a frame with an object of its isolated world.
ExposeAPIInMainWorld(key, api) ==
  /\ ~aborted
  /\ api \in ApiObjects
  /\ heap[api].ctx.f \in frameAlive
  /\ ExposeIn(GetOrCreateStore(St(TRUE), heap[api].ctx.f), heap[api].ctx.f, key, api)

\* What the caller observes of invocation r of proxy p.
Deliver(r, p, args) ==
  IF r.outcome = "abort" THEN CrashCall(r.S)
  ELSE /\ Commit(r.S)
       /\ held' = held \cup RefsOf({r.val})
       /\ ev' = [NoEv EXCEPT !.op = "invoke", !.obj = p, !.args = args,
                             !.base = Len(heap), !.calls = r.S.calls,
                             !.result = r.val, !.exc = r.exc, !.orig = r.orig,
                             !.ret = r.ret, !.rets = r.S.rets,
                             !.outcome = r.outcome]
       /\ UNCHANGED <<frameAlive, finalQ, global, aborted>>

\* A main-world script calls a proxy function it can reach, with arguments of
\* the proxy's context, and keeps what it gets back.
Invoke(p, args, luck) ==
  /\ ~aborted
  /\ ncalls < MaxCalls
  /\ ncalls' = ncalls + 1
  /\ IsProxyFunction(heap, p) /\ heap[p].live
  /\ \A o \in RefsOf({args[i] : i \in DOMAIN args}) : heap[o].ctx = heap[p].ctx
  /\ Deliver(ProxyFunctionWrapper(St(luck), p, args, 0), p, args)

\* A script settles one of its own pending promises.
Settle(P, outcome, v) ==
  /\ ~aborted
  /\ heap[P].kind = "promise" /\ heap[P].pstate = "pending"
  /\ v.t = "ref" => heap[v.v].ctx = heap[P].ctx
  /\ heap' = [heap EXCEPT ![P].pstate = outcome, ![P].pval = v]
  /\ ev' = NoEv /\ UNCHANGED <<frameAlive, store_map_, storeAlive, next_id, functions, monitors,
                 finalQ, reactions, global, held, ncalls, uaf, aborted>>

\* A pair of callbacks that both resolve.
AlwaysResolve(m, r) ==
  IF m.S.abort THEN CrashStep(m.S)
  ELSE /\ Commit([m.S EXCEPT !.heap[r.dst].pstate = "fulfilled",
                             !.heap[r.dst].pval = m.val,
                             !.reactions = @ \ {r}])
       /\ ev' = NoEv
       /\ UNCHANGED <<frameAlive, finalQ, global, held, ncalls, aborted>>

\* A pair of callbacks that settles every destination promise still waiting.
SettleEvery(m, r) ==
  IF m.S.abort THEN CrashStep(m.S)
  ELSE /\ Commit([m.S EXCEPT
                   !.heap = [i \in 1..Len(m.S.heap) |->
                               IF i \in { x.dst : x \in reactions }
                               THEN [m.S.heap[i] EXCEPT !.pstate = heap[r.src].pstate,
                                                        !.pval = m.val]
                               ELSE m.S.heap[i]],
                   !.reactions = @ \ {r}])
       /\ ev' = NoEv
       /\ UNCHANGED <<frameAlive, finalQ, global, held, ncalls, aborted>>

\* promise->Resolve(value) or promise->Reject(value); delete promise, for the
\* marshalled settlement value m.
SettleDestination(m, r) ==
  IF m.S.abort THEN CrashStep(m.S)
  ELSE /\ Commit([m.S EXCEPT !.heap[r.dst].pstate = heap[r.src].pstate,
                             !.heap[r.dst].pval = m.val,
                             !.reactions = @ \ {r}])
       /\ ev' = NoEv
       /\ UNCHANGED <<frameAlive, finalQ, global, held, ncalls, aborted>>

\* The microtask of a settled source promise runs then_cb or catch_cb (lines
\* 139-160); the callbacks are functions of the destination context.
React(r, luck) ==
  /\ ~aborted
  /\ r \in reactions
  /\ heap[r.src].pstate # "pending"
  /\ SettleDestination(PassValueToOtherContext(St(luck), r.destination, r.source,
                                               r.destination, heap[r.src].pval, r.store, 0),
                       r)

\* A main-world script forgets a value it kept.
Drop(o) ==
  /\ ~aborted
  /\ o \in held
  /\ held' = held \ {o}
  /\ ev' = NoEv /\ UNCHANGED <<heap, frameAlive, store_map_, storeAlive, next_id, functions,
                 monitors, finalQ, reactions, global, uaf, aborted, ncalls>>

\* A collection cycle finds proxy function o unreachable: the object dies and
\* the monitors bound to it are queued for their destructor.
Collect(o) ==
  /\ ~aborted
  /\ o \in 1..Len(heap) /\ IsProxyFunction(heap, o) /\ heap[o].live
  /\ o \notin Closure(heap, GCRoots)
  /\ heap' = [heap EXCEPT ![o].live = FALSE]
  /\ monitors' = { m \in monitors : m.target # o }
  /\ finalQ' = finalQ \cup { m \in monitors : m.target = o }
  /\ ev' = NoEv /\ UNCHANGED <<frameAlive, store_map_, storeAlive, next_id, functions,
                 reactions, global, held, ncalls, uaf, aborted>>

\* FunctionLifeMonitor::RunDestructor: store_->functions().erase(func_id_).
RunDestructor(m, luck) ==
  /\ ~aborted
  /\ m \in finalQ
  /\ IF m.store \in storeAlive
        THEN /\ functions' = [functions EXCEPT ![m.store] = MapErase(@, m.id)]
             /\ finalQ' = finalQ \ {m}
             /\ ev' = NoEv /\ UNCHANGED <<heap, frameAlive, store_map_, storeAlive, next_id,
                            monitors, reactions, global, held, ncalls, uaf, aborted>>
        ELSE IF luck
        THEN /\ finalQ' = finalQ \ {m}
             /\ uaf' = TRUE
             /\ ev' = NoEv /\ UNCHANGED <<heap, frameAlive, store_map_, storeAlive, next_id, functions,
                            monitors, reactions, global, held, ncalls, aborted>>
        ELSE CrashStep([uaf |-> TRUE, why |-> "fault"])

\* A teardown that deletes every store.
DestroyAllStores(f) ==
  /\ ~aborted
  /\ f \in frameAlive
  /\ frameAlive' = frameAlive \ {f}
  /\ storeAlive' = {}
  /\ functions' = [g \in Frames |-> EmptyMap]
  /\ ev' = NoEv /\ UNCHANGED <<heap, store_map_, next_id, monitors, finalQ, reactions, global,
                 held, ncalls, uaf, aborted>>

\* The host destroys frame f; RenderFramePersistenceStore::OnDestruct deletes
\* the frame's store, if it has one.  store_map_ keeps its entry.
DestroyFrame(f) ==
  /\ ~aborted
  /\ f \in frameAlive
  /\ frameAlive' = frameAlive \ {f}
  /\ storeAlive' = storeAlive \ {f}
  /\ functions' = [functions EXCEPT ![f] = EmptyMap]
  /\ ev' = NoEv /\ UNCHANGED <<heap, store_map_, next_id, monitors, finalQ, reactions, global,
                 held, ncalls, uaf, aborted>>

TamperOps == {"add", "delete", "assign"}

\* What a sloppy-mode script's write does to object o.
Mutate(obj, op) ==
  IF obj.frozen THEN obj
  ELSE IF op = "add"
       THEN [obj EXCEPT !.keys = IF obj.kind = "array" THEN @ ELSE Append(@, "x"),
                        !.elems = Append(@, Prim(9))]
  ELSE IF op = "delete" /\ Len(obj.elems) > 0
       THEN [obj EXCEPT !.keys = IF obj.kind = "array" THEN @ ELSE SubSeq(@, 1, Len(@) - 1),
                        !.elems = SubSeq(@, 1, Len(@) - 1)]
  ELSE IF op = "assign" /\ Len(obj.elems) > 0
       THEN [obj EXCEPT !.elems[1] = Prim(9)]
  ELSE obj

\* A main-world script tries to add, delete or reassign a property of an
\* object of an exposed API.
Tamper(o, op) ==
  /\ ~aborted
  /\ heap[o].live
  /\ heap' = [heap EXCEPT ![o] = Mutate(@, op)]
  /\ ev' = [NoEv EXCEPT !.op = "tamper"]
  /\ UNCHANGED <<frameAlive, store_map_, storeAlive, next_id, functions, monitors,
                 finalQ, reactions, global, held, ncalls, uaf, aborted>>

\* The API objects whose proxy has been installed on a global.
Proxied ==
  { o \in ApiObjects :
      \E f \in Frames, n \in Names :
        global[f][n].t = "ref" /\ heap[global[f][n].v].target = o }

\* An isolated-world script adds, deletes or reassigns a property of an API
\* object it has exposed.
Rewrite(o, op) ==
  /\ ~aborted
  /\ heap[o].writes = 0
  /\ Cardinality({ x \in Scripted : heap[x].writes > 0 }) < MaxWrites
  /\ heap' = [heap EXCEPT ![o] = [Mutate(@, op) EXCEPT !.writes = @ + 1]]
  /\ ev' = [NoEv EXCEPT !.op = "rewrite", !.obj = o]
  /\ UNCHANGED <<frameAlive, store_map_, storeAlive, next_id, functions, monitors,
                 finalQ, reactions, global, held, ncalls, uaf, aborted>>

Bridge ==
  \/ \E key \in Names, api \in ApiObjects : ExposeAPIInMainWorld(key, api)
  \/ \E p \in MainReach, args \in ArgLists, luck \in BOOLEAN : Invoke(p, args, luck)
  \/ \E o \in held : Drop(o)
  \/ \E o \in 1..Len(heap) : Collect(o)
  \/ \E m \in finalQ, luck \in BOOLEAN : RunDestructor(m, luck)
  \/ \E f \in Frames : DestroyFrame(f)
  \/ \E o \in Exposed, op \in TamperOps : Tamper(o, op)

Promises ==
  \/ \E P \in Scripted, s \in Settlements : Settle(P, s[1], s[2])
  \/ \E r \in reactions, luck \in BOOLEAN : React(r, luck)

Scripts == \E o \in Proxied, op \in TamperOps : Rewrite(o, op)

\* The first world has no promise: Settle and React are never enabled in it.
Next == Bridge
NextP == Bridge \/ Promises
NextV == Bridge \/ Scripts

Spec == Init /\ [][Next]_vars
SpecP == InitP /\ [][NextP]_vars
SpecV == InitV /\ [][NextV]_vars
SpecQ == InitQ /\ [][NextP]_vars

\* The microtask queue runs every reaction that is ready.
FairSpecP == SpecP /\ WF_vars(\E r \in reactions, luck \in BOOLEAN : React(r, luck))

\* ------------------------------------------------------------- properties
\* d is a marshalled form of s: primitives keep their value, a value with no
\* serialization becomes null, and a function, promise, error, array or
\* object becomes a different object of the same kind made by the bridge; a
\* function's proxy names, through its store entry, the function itself, and
\* arrays and objects correspond element by element.
RECURSIVE MarshalledOf(_, _, _, _)
MarshalledOf(h, s, d, n) ==
  IF s.t = "prim" THEN d = s
  ELSE IF s.t = "sym" THEN d = Null
  ELSE IF s.t \in {"null", "undef"} THEN d = s
  ELSE /\ d.t = "ref"
       /\ d.v # s.v
       /\ h[d.v].made = "bridge"
       /\ h[d.v].kind = h[s.v].kind
       /\ IF h[s.v].kind = "func"
          THEN /\ h[d.v].fid # 0
               /\ h[d.v].target = s.v
               /\ (h[d.v].store \in storeAlive /\ h[d.v].fid \in DOMAIN functions[h[d.v].store])
                    => functions[h[d.v].store][h[d.v].fid].func = s.v
          ELSE IF h[s.v].kind \in {"array", "object"}
          THEN /\ n > 0
               /\ h[d.v].keys = h[s.v].keys
               /\ Len(h[d.v].elems) = Len(h[s.v].elems)
               /\ \A i \in DOMAIN h[s.v].elems :
                    MarshalledOf(h, h[s.v].elems[i], h[d.v].elems[i], n - 1)
          ELSE TRUE

\* The calls the invocation that has just returned made on behalf of proxy p.
CallsBy(p) == { i \in DOMAIN ev.calls : ev.calls[i].by = p }

ErasureFollowsCollection ==
  \A o \in 1..Len(heap) :
    (/\ IsProxyFunction(heap, o) /\ ~heap[o].live
     /\ heap[o].store \in storeAlive
     /\ heap[o].fid \in DOMAIN functions[heap[o].store])
      => \E m \in finalQ : m.target = o /\ m.store = heap[o].store /\ m.id = heap[o].fid

\* C3: everything a main world can reach, through its global or through what
\* the bridge has handed it, is an object of a main world.
NoForeignReference ==
  \A o \in MainReach : heap[o].ctx.w = "main"

\* The promises the bridge has made.
BridgePromises ==
  { d \in 1..Len(heap) : heap[d].kind = "promise" /\ heap[d].made = "bridge" }

\* A destination promise is pending when it is handed over and, once settled,
\* has its source's outcome and the marshalled form of its source's value.
SettledAsSource ==
  /\ (ev.op = "expose" /\ ev.outcome = "ok") =>
       \A d \in BridgePromises : d > ev.base => heap[d].pstate = "pending"
  /\ \A d \in BridgePromises :
       heap[d].pstate # "pending" =>
         /\ heap[heap[d].target].pstate = heap[d].pstate
         /\ MarshalledOf(heap, heap[heap[d].target].pval, heap[d].pval, MaxDepth)

\* A settled destination promise stays as it is.
SettledOnce ==
  \A d \in BridgePromises :
    heap[d].pstate # "pending" =>
      heap'[d].pstate = heap[d].pstate /\ heap'[d].pval = heap[d].pval

ReactionReady == \E r \in reactions : heap[r.src].pstate # "pending"

\* C4: a marshalled promise is pending at first, never settles before its
\* source or otherwise than its source, settles with the marshalled value, and
\* does settle once its source has, unless the process has died.
PromiseSettlementPropagates ==
  /\ []SettledAsSource
  /\ [][SettledOnce]_vars
  /\ ReactionReady ~> (aborted \/ ~ReactionReady)

\* A destination promise has rejected with a marshalled error.
PromiseSettlementWitness ==
  \E d \in BridgePromises :
    /\ heap[d].pstate = "rejected"
    /\ heap[d].pval.t = "ref" /\ heap[d].pval.v # heap[heap[d].target].pval.v

\* C5: when the function behind a proxy throws an error with message M, the
\* caller sees a new exception with message M (the generic message when none
\* can be extracted), not the original object, and no return value.
ErrorMessagePreserved ==
  (ev.op = "invoke" /\ ev.outcome = "throw") =>
    /\ ev.exc # ev.orig
    /\ ev.result = Undef
    /\ heap[ev.exc].msg = IF ev.orig # 0 THEN heap[ev.orig].msg ELSE GenericMessage

\* What one exposure does to the global, the heap and the stores.
NoShadowingStep ==
  ev'.op = "expose" =>
    IF Has(global[ev'.f], ev'.key)
    THEN /\ ev'.outcome = "collision"
         /\ global' = global /\ heap' = heap /\ functions' = functions
         /\ next_id' = next_id
    ELSE /\ ev'.outcome = "ok"
         /\ global' = [global EXCEPT ![ev'.f][ev'.key] = ev'.result]
         /\ ev'.result.t = "ref" /\ ev'.result.v > Len(heap)

\* C6: an exposure under a name the global already has is refused and changes
\* neither the global nor the heap nor any store entry; under a new name the
\* global gains that one property, bound to a new object.
NoShadowing == [][NoShadowingStep]_vars

\* An exposure under a name taken by an earlier exposure was refused.
NoShadowingWitness ==
  /\ ev.op = "expose" /\ ev.outcome = "collision" /\ ev.key = "api"
  /\ functions[ev.f] # EmptyMap

FrozenStep ==
  \A o \in Exposed :
    /\ heap[o].frozen
    /\ heap'[o].keys = heap[o].keys /\ heap'[o].elems = heap[o].elems

\* C7: every object of an exposed graph is frozen, and no step, a script's add,
\* delete or reassign included, changes its properties or their values.
Frozen == [][FrozenStep]_vars

\* A script has just tried to change an exposed graph that has a nested array.
FrozenWitness ==
  /\ ev.op = "tamper"
  /\ \E o \in Exposed : heap[o].kind = "array" /\ Len(heap[o].elems) = 3

\* C8: every array property of an exposed object has become a new array of the
\* same length whose elements are the marshalled elements in order; function
\* elements are proxies with entries of their own under distinct ids.
ArrayDeepProxying ==
  (ev.op = "expose" /\ ev.outcome = "ok") =>
    \A i \in DOMAIN heap[ev.obj].elems :
      IsArray(heap, heap[ev.obj].elems[i]) =>
        /\ IsArray(heap, heap[ev.result.v].elems[i])
        /\ heap[ev.result.v].elems[i].v > ev.base
        /\ Len(heap[heap[ev.result.v].elems[i].v].elems) = Len(heap[heap[ev.obj].elems[i].v].elems)
        /\ \A k \in DOMAIN heap[heap[ev.obj].elems[i].v].elems :
             /\ MarshalledOf(heap, heap[heap[ev.obj].elems[i].v].elems[k],
                             heap[heap[ev.result.v].elems[i].v].elems[k], MaxDepth)
             /\ IsFunction(heap, heap[heap[ev.obj].elems[i].v].elems[k]) =>
                  /\ heap[heap[heap[ev.result.v].elems[i].v].elems[k].v].fid
                       \in DOMAIN functions[ev.f]
                  /\ \A j \in DOMAIN heap[heap[ev.obj].elems[i].v].elems :
                       (j # k /\ IsFunction(heap, heap[heap[ev.obj].elems[i].v].elems[j])) =>
                         heap[heap[heap[ev.result.v].elems[i].v].elems[k].v].fid
                           # heap[heap[heap[ev.result.v].elems[i].v].elems[j].v].fid

\* An object with an array of two functions and a number has been exposed.
ArrayDeepProxyingWitness ==
  /\ ev.op = "expose" /\ ev.outcome = "ok"
  /\ \E i \in DOMAIN heap[ev.obj].elems :
       /\ IsArray(heap, heap[ev.obj].elems[i])
       /\ Len(heap[heap[ev.result.v].elems[i].v].elems) = 3
       /\ heap[heap[ev.result.v].elems[i].v].elems[2] = Prim(1)

TeardownStep ==
  \A f \in Frames :
    (f \in frameAlive /\ f \notin frameAlive') =>
      /\ f \notin storeAlive'
      /\ functions'[f] = EmptyMap
      /\ \A g \in Frames \ {f} :
           /\ functions'[g] = functions[g]
           /\ next_id'[g] = next_id[g]
           /\ (g \in storeAlive') = (g \in storeAlive)

\* C9: the destruction of a frame deletes that frame's store with every entry
\* in it, whatever still refers to them, and leaves the other stores alone.
FrameTeardown == [][TeardownStep]_vars

\* A frame whose store had entries with reachable proxies is gone, and another
\* frame's store still has its entries.
FrameTeardownWitness ==
  \E f \in Frames :
    /\ f \notin frameAlive /\ f \in store_map_
    /\ \E o \in MainReach : IsProxyFunction(heap, o) /\ heap[o].live /\ heap[o].store = f
    /\ \E g \in storeAlive : functions[g] # EmptyMap

IdsDistinct ==
  /\ \A o1, o2 \in 1..Len(heap) :
       (/\ o1 # o2 /\ IsProxyFunction(heap, o1) /\ IsProxyFunction(heap, o2)
        /\ heap[o1].store = heap[o2].store) => heap[o1].fid # heap[o2].fid
  /\ \A o \in 1..Len(heap) :
       IsProxyFunction(heap, o) => heap[o].fid < next_id[heap[o].store]
  /\ \A f \in Frames : \A i \in DOMAIN functions[f] : i < next_id[f]

IdsIncreaseStep ==
  \A f \in Frames :
    /\ next_id'[f] >= next_id[f]
    /\ \A i \in DOMAIN functions'[f] :
         IF i \in DOMAIN functions[f] THEN functions'[f][i] = functions[f][i]
         ELSE i >= next_id[f] /\ i < next_id'[f]

\* C10: within a store no two proxy functions, alive or collected, have the
\* same id; every id taken is at least the counter before it was taken, and
\* no registration replaces an entry.
IdUniqueness == []IdsDistinct /\ [][IdsIncreaseStep]_vars

\* A registration was made after an entry of the same store had been erased.
IdUniquenessWitness ==
  \E f \in storeAlive :
    /\ ev.op = "invoke"
    /\ next_id[f] > Cardinality(DOMAIN functions[f]) + 1
    /\ \E o \in 1..Len(heap) :
         IsProxyFunction(heap, o) /\ ~heap[o].live /\ heap[o].store = f /\ heap[o].monitored
    /\ \E o \in 1..Len(heap) : o > ev.base /\ IsProxyFunction(heap, o) /\ heap[o].store = f

\* The objects something still refers to.
Reachable == Closure(heap, GCRoots)

\* C12: every proxy function that is still reachable has an entry under its
\* id in its frame's store, so no invocation looks up an id that is missing.
NoStaleLookup ==
  \A o \in Reachable :
    (IsProxyFunction(heap, o) /\ heap[o].live) =>
      /\ heap[o].store \in storeAlive
      /\ heap[o].fid \in DOMAIN functions[heap[o].store]

\* The monitors of proxy function o, bound or waiting for their destructor.
MonitorsOf(o) == { m \in monitors \cup finalQ : m.target = o }

\* C13: every store entry belongs to a proxy function that carries its id and
\* has exactly one monitor, which names that store and that id.
OneMonitorPerProxy ==
  \A f \in storeAlive : \A i \in DOMAIN functions[f] :
    \E o \in 1..Len(heap) :
      /\ IsProxyFunction(heap, o) /\ heap[o].store = f /\ heap[o].fid = i
      /\ Cardinality(MonitorsOf(o)) = 1
      /\ \A m \in MonitorsOf(o) : m.store = f /\ m.id = i

\* C18: no step has used a store after OnDestruct deleted it, neither a
\* registration, nor a finalizer's erase, nor a proxy function's lookup, nor a
\* promise reaction's marshalling.
NoUseAfterTeardown == ~uaf

\* The proxy objects the exposure that has just returned built.
BuiltProxies ==
  { d \in (ev.base + 1)..Len(heap) : heap[d].made = "bridge" /\ heap[d].kind = "object" }

\* Proxy object d has the keys of its source whose read succeeds, in the
\* source's order, one value for each, and the source's primitive values.
Mirrors(d) ==
  /\ heap[d].keys = ReadableKeys(heap[heap[d].target].keys, heap[heap[d].target].elems, 1)
  /\ Len(heap[d].elems) = Len(heap[d].keys)
  /\ \A j \in DOMAIN heap[d].elems :
       ReadableKeys(heap[heap[d].target].elems, heap[heap[d].target].elems, 1)[j].t = "prim" =>
         heap[d].elems[j] =
           ReadableKeys(heap[heap[d].target].elems, heap[heap[d].target].elems, 1)[j]

MirrorsAtExposure ==
  (ev.op = "expose" /\ ev.outcome = "ok") =>
    /\ ev.result.v \in BuiltProxies /\ heap[ev.result.v].target = ev.obj
    /\ \A d \in BuiltProxies : Mirrors(d)

\* A script's write to a source object changes no object of an exposed graph,
\* and every object of an exposed graph is the bridge's own.
SnapshotStep ==
  ev'.op = "rewrite" =>
    /\ Len(heap') = Len(heap)
    /\ \A d \in Exposed : heap[d].made = "bridge" /\ heap'[d] = heap[d]

\* C11 (as amended): a proxy object has the keys of its source that could be
\* read at the moment of proxying, and a later add, delete or reassign on the
\* source changes neither the keys nor the values of the proxy.
Snapshot == []MirrorsAtExposure /\ [][SnapshotStep]_vars

\* A script has just added a property to an object it had exposed, and the
\* proxy on the global still has the keys it was built with.
SnapshotWitness ==
  /\ ev.op = "rewrite"
  /\ Len(heap[ev.obj].keys) = 12
  /\ \E f \in Frames :
       /\ global[f]["api"].t = "ref"
       /\ heap[global[f]["api"].v].target = ev.obj
       /\ Len(heap[global[f]["api"].v].keys) = 10

\* C11 (as stated): a proxy object has every key of its source.
SnapshotAllKeys ==
  (ev.op = "expose" /\ ev.outcome = "ok") =>
    \A d \in BuiltProxies : heap[d].keys = heap[heap[d].target].keys

\* The values of object o whose read succeeds, in order.
ReadableValues(o) == ReadableKeys(heap[o].elems, heap[o].elems, 1)

\* w is what the kind of v calls for: a proxy function for a function, else a
\* new pending promise for a promise, else a new error with the printable
\* message for an error, else a new array of the same length for an array,
\* else a proxy object for an object, else null or undefined themselves, else
\* the converted primitive, null when there is no conversion.
Dispatched(v, w) ==
  IF IsFunction(heap, v)
  THEN /\ IsFunction(heap, w) /\ heap[w.v].made = "bridge"
       /\ heap[w.v].fid # 0 /\ heap[w.v].target = v.v
  ELSE IF IsPromise(heap, v)
  THEN /\ IsPromise(heap, w) /\ heap[w.v].made = "bridge"
       /\ heap[w.v].pstate = "pending" /\ heap[w.v].target = v.v
  ELSE IF IsNativeError(heap, v)
  THEN /\ IsNativeError(heap, w) /\ heap[w.v].made = "bridge"
       /\ heap[w.v].msg = MessageGet(heap[v.v].msg)
  ELSE IF IsArray(heap, v)
  THEN /\ IsArray(heap, w) /\ heap[w.v].made = "bridge"
       /\ Len(heap[w.v].elems) = Len(heap[v.v].elems)
  ELSE IF IsObject(heap, v)
  THEN /\ w.t = "ref" /\ heap[w.v].kind = "object" /\ heap[w.v].made = "bridge"
       /\ heap[w.v].target = v.v /\ Mirrors(w.v)
  ELSE IF IsNullOrUndefined(v) THEN w = v
  ELSE IF v.t = "prim" THEN w = v
  ELSE w = Null

\* C14: every element of an array property of an exposed object, which the
\* marshaller is handed directly, has become what the first kind it matches
\* in the order function, promise, error, array, object, null or undefined,
\* primitive calls for.
DispatchPrecedence ==
  (ev.op = "expose" /\ ev.outcome = "ok") =>
    \A i \in DOMAIN heap[ev.result.v].elems :
      IsArray(heap, ReadableValues(ev.obj)[i]) =>
        /\ Dispatched(ReadableValues(ev.obj)[i], heap[ev.result.v].elems[i])
        /\ heap[ev.result.v].elems[i].v > ev.base
        /\ \A k \in DOMAIN heap[ReadableValues(ev.obj)[i].v].elems :
             Dispatched(heap[ReadableValues(ev.obj)[i].v].elems[k],
                        heap[heap[ev.result.v].elems[i].v].elems[k])

\* An array with a value of every kind has been marshalled: its proxy has a
\* proxy function, a promise, an error, an object, null for a symbol and an
\* array in the places of the source's.
DispatchPrecedenceWitness ==
  /\ ev.op = "expose" /\ ev.outcome = "ok"
  /\ \E i \in DOMAIN heap[ev.result.v].elems :
       /\ IsArray(heap, heap[ev.result.v].elems[i])
       /\ Len(heap[heap[ev.result.v].elems[i].v].elems) = 10
       /\ IsFunction(heap, heap[heap[ev.result.v].elems[i].v].elems[1])
       /\ IsNativeError(heap, heap[heap[ev.result.v].elems[i].v].elems[3])
       /\ IsPromise(heap, heap[heap[ev.result.v].elems[i].v].elems[4])
       /\ heap[heap[heap[ev.result.v].elems[i].v].elems[5].v].kind = "object"
       /\ heap[heap[ev.result.v].elems[i].v].elems[9] = Null
       /\ IsArray(heap, heap[heap[ev.result.v].elems[i].v].elems[10])

\* A step that settles a destination promise does so after its own source has
\* settled, with the source's outcome, and changes no other destination
\* promise; a step that settles a source settles no destination.
IndependentStep ==
  \A d \in BridgePromises :
    heap'[d].pstate # heap[d].pstate =>
      /\ heap[heap[d].target].pstate # "pending"
      /\ heap'[heap[d].target] = heap[heap[d].target]
      /\ heap'[d].pstate = heap[heap[d].target].pstate
      /\ \A e \in BridgePromises \ {d} : heap'[e] = heap[e]

\* C15: a destination promise is settled at most once, after and as its own
\* source; of two promises proxied by one exposure, the settlement of either
\* source leaves the other's destination as it was, whichever settles first.
IndependentSettlement ==
  /\ []SettledAsSource
  /\ [][SettledOnce /\ IndependentStep]_vars

\* Of two promises proxied one after the other, the second has been fulfilled
\* while the first, whose source has been rejected, is still pending.
IndependentSettlementWitness ==
  \E d1, d2 \in BridgePromises :
    /\ d1 < d2
    /\ heap[d2].pstate = "fulfilled"
    /\ heap[d1].pstate = "pending" /\ heap[heap[d1].target].pstate = "rejected"

\* The number of occurrences of a function in the graph of v: what hangs off
\* v by elements and readable properties, every path counted.
RECURSIVE Occurrences(_, _, _)
RECURSIVE OccurrencesIn(_, _, _, _)
Occurrences(h, v, n) ==
  IF n = 0 \/ v.t # "ref" THEN 0
  ELSE IF h[v.v].kind = "func" THEN 1
  ELSE IF h[v.v].kind \in {"array", "object"} THEN OccurrencesIn(h, h[v.v].elems, 1, n - 1)
  ELSE 0
OccurrencesIn(h, vals, i, n) ==
  IF i > Len(vals) THEN 0
  ELSE Occurrences(h, vals[i], n) + OccurrencesIn(h, vals, i + 1, n)

\* The occurrences in the arguments every proxy function was called with
\* during the invocation: calls from entry i of the log on.
RECURSIVE OccurrencesInCalls(_, _, _)
OccurrencesInCalls(h, calls, i) ==
  IF i > Len(calls) THEN 0
  ELSE (IF h[calls[i].callee].fid # 0
        THEN OccurrencesIn(h, calls[i].args, 1, MaxDepth) ELSE 0)
       + OccurrencesInCalls(h, calls, i + 1)

Entries(fn) == UNION { { <<f, i>> : i \in DOMAIN fn[f] } : f \in Frames }
Added == Cardinality(Entries(functions') \ Entries(functions))

StoreFrameStep ==
  /\ \A f \in Frames : \A i \in DOMAIN functions[f] :
       IF i \in DOMAIN functions'[f] THEN functions'[f][i] = functions[f][i]
       ELSE finalQ' # finalQ \/ frameAlive' # frameAlive
  /\ \A f \in Frames : \A i \in DOMAIN functions'[f] :
       i \notin DOMAIN functions[f] => i >= next_id[f]
  /\ IF ev'.op = "expose" /\ ev'.outcome = "ok"
     THEN Added = Occurrences(heap', Ref(ev'.obj), MaxDepth)
     ELSE IF ev'.op = "invoke"
     THEN Added = OccurrencesIn(heap', ev'.args, 1, MaxDepth)
                    + OccurrencesInCalls(heap', ev'.calls, 1)
                    + OccurrencesIn(heap', ev'.rets, 1, MaxDepth)
     ELSE Added = 0

\* C16: an exposure or an invocation adds to the stores one entry, under an
\* id not yet taken, for every occurrence of a function in the values it
\* marshals, and none when there is no function; no step overwrites an entry,
\* and an entry goes only in a step that runs a monitor's destructor or
\* destroys a frame.
StoreFrameCondition == [][StoreFrameStep]_vars

\* A callback has been passed in a second call: the store has two entries for
\* it, next to the entries of a function that was exposed three times.
StoreFrameConditionWitness ==
  /\ ev.op = "invoke" /\ Len(ev.args) = 3
  /\ \E f \in storeAlive : \E i, j, k, l \in DOMAIN functions[f] :
       /\ i # j /\ functions[f][i].func = ev.args[1].v /\ functions[f][j].func = ev.args[1].v
       /\ k # l /\ functions[f][k].func = functions[f][l].func
       /\ heap[functions[f][k].func].ctx.w = "iso"

\* C17: no read of a property or of an array element that fails inside the
\* bridge ends the process.
NoFatalError == ~(aborted /\ ev.op = "abort" /\ ev.outcome = "read")

\* C19: no exposure and no invocation recurses until the stack is exhausted:
\* the marshaller, the proxy builder and the freeze come to an end on every
\* graph, one that reaches itself included.
Termination == ~(aborted /\ ev.op = "abort" /\ ev.outcome = "stack")

\* C20: a value that is a property of an exposed object has become what the
\* marshaller makes of the same value handed to it directly, and a function
\* among them has its entry and its one monitor.
UniformTreatment ==
  (ev.op = "expose" /\ ev.outcome = "ok") =>
    \A i \in DOMAIN heap[ev.result.v].elems :
      /\ Dispatched(ReadableValues(ev.obj)[i], heap[ev.result.v].elems[i])
      /\ IsFunction(heap, ReadableValues(ev.obj)[i]) =>
           /\ heap[heap[ev.result.v].elems[i].v].fid \in DOMAIN functions[ev.f]
           /\ Cardinality(MonitorsOf(heap[ev.result.v].elems[i].v)) = 1


====
